---- MODULE Spec2Model ----
(***************************************************************************)
(* Candidate store, candidate numbering and the inbound e-mail candidate   *)
(* pipeline of the recruitment back office (server/storage.ts,             *)
(* server/incomingEmailService.ts, shared/schema.ts).                      *)
(*                                                                         *)
(* Strings are sequences of one-character strings; the fixed pieces of a   *)
(* template literal are single elements ("LF" is a line feed).  null,      *)
(* undefined and '' are all the empty sequence: the code reads them only   *)
(* through || and truthiness tests, which do not tell them apart.          *)
(***************************************************************************)
EXTENDS Integers, Sequences, FiniteSets, TLC

VARIABLES candidates, jobs, jobApplications, nextId, pc, loc, ops,
          assignLog, lastUpdate, lastRun,
          inbox, cycles, queue, handled, caught, calls

vars == <<candidates, jobs, jobApplications, nextId, pc, loc, ops,
          assignLog, lastUpdate, lastRun,
          inbox, cycles, queue, handled, caught, calls>>

\* The mailbox and the poll cycles; the handlers waiting to run and the
\* exceptions caught so far.
pollVars == <<inbox, cycles, handled>>
excVars == <<queue, caught>>

(***************************************************************************)
(* Bounds of the model.                                                    *)
(***************************************************************************)
NumProcs == 2
MaxOps == 3
MaxInbox == 2
MaxCycles == 2
MaxPhoneLen == 5

Procs == 1..NumProcs

(***************************************************************************)
(* String helpers: JavaScript's String methods and PostgreSQL's ILIKE.     *)
(***************************************************************************)
MinOf(S) == CHOOSE x \in S : \A y \in S : x <= y
MaxOf(S) == CHOOSE x \in S : \A y \in S : x >= y

WsChars == {" ", "LF"}

IsWs(c) == c \in WsChars

LowerChar(c) ==
    CASE c = "A" -> "a" [] c = "B" -> "b" [] c = "C" -> "c" [] c = "V" -> "v"
      [] c = "J" -> "j" [] c = "U" -> "u" [] c = "N" -> "n"
      [] OTHER -> c

ToLower(s) == [i \in 1..Len(s) |-> LowerChar(s[i])]

Includes(s, sub) ==
    \E i \in 0..(Len(s) - Len(sub)) : SubSeq(s, i + 1, i + Len(sub)) = sub

ILike(s, pattern) == Includes(ToLower(s), ToLower(pattern))

Trim(s) ==
    IF \A i \in 1..Len(s) : IsWs(s[i]) THEN <<>>
    ELSE LET first == CHOOSE i \in 1..Len(s) :
                         ~IsWs(s[i]) /\ \A j \in 1..(i - 1) : IsWs(s[j])
             last  == CHOOSE i \in 1..Len(s) :
                         ~IsWs(s[i]) /\ \A j \in (i + 1)..Len(s) : IsWs(s[j])
         IN  SubSeq(s, first, last)

Substring(s, n) == SubSeq(s, 1, IF Len(s) < n THEN Len(s) ELSE n)

Or(a, b) == IF a # <<>> THEN a ELSE b

Reverse(s) == [i \in 1..Len(s) |-> s[Len(s) + 1 - i]]

(***************************************************************************)
(* The candidates table.  The sequence is in creation order (created_at    *)
(* ascending); ids stand for gen_random_uuid() and are never reused.       *)
(***************************************************************************)
CandidateIds == {candidates[i].id : i \in 1..Len(candidates)}

RowById(rows, id) == rows[CHOOSE i \in 1..Len(rows) : rows[i].id = id]

CandidateById(id) == RowById(candidates, id)

\* candidates.email is UNIQUE: whether an insert of this email is rejected.
EmailNeverTaken(email) == FALSE

EmailTaken(email) == \E i \in 1..Len(candidates) : candidates[i].email = email

\* createCandidate: the next candidate number from the current maximum.
NextNumberSkipping(rows) ==
    IF Len(rows) > 0
    THEN MaxOf({rows[i].candidateNumber : i \in 1..Len(rows)}) + 2
    ELSE 100

NextNumber(rows) ==
    IF Len(rows) > 0
    THEN LET last == MaxOf({rows[i].candidateNumber : i \in 1..Len(rows)})
         IN  (IF last = 0 THEN 99 ELSE last) + 1
    ELSE 100

\* A column the inserted values do not name is NULL.
Column(c, name) == IF name \in DOMAIN c THEN c[name] ELSE <<>>

NewCandidateRow(id, number, c) ==
    [id |-> id, candidateNumber |-> number, email |-> c.email,
     firstName |-> c.firstName, lastName |-> c.lastName, mobile |-> c.mobile,
     profession |-> c.profession, notes |-> c.notes,
     nationalId |-> Column(c, "nationalId"),
     cvPath |-> Column(c, "cvPath"), cvContent |-> Column(c, "cvContent")]

(***************************************************************************)
(* getCandidates(limit, offset, search): ILIKE '%search%' on the full      *)
(* name, the email or the profession, newest first, one page.              *)
(***************************************************************************)
Page(rows, limit, offset) ==
    SubSeq(rows, offset + 1, IF Len(rows) < offset + limit THEN Len(rows) ELSE offset + limit)

SearchMatches(c, search) ==
    \/ ILike(c.firstName \o <<" ">> \o c.lastName, search)
    \/ ILike(c.email, search)
    \/ (c.profession # <<>> /\ ILike(c.profession, search))

getCandidates(limit, offset, search) ==
    LET hits == IF search # <<>>
                THEN SelectSeq(candidates, LAMBDA c : SearchMatches(c, search))
                ELSE candidates
    IN  Page(Reverse(hits), limit, offset)

\* getJobs(limit, offset): newest first, one page.
getJobs(limit, offset) == Page(Reverse(jobs), limit, offset)

JobIds == {jobs[i].id : i \in 1..Len(jobs)}

(***************************************************************************)
(* An inbound message as mailparser hands it over.  subject and body are   *)
(* sequences of lexed pieces [t, s]: t says which of EMAIL_PATTERNS the    *)
(* piece matches ("email", "phone", "code", "name") or "text" for none;    *)
(* from is the From header's text.                                         *)
(***************************************************************************)
Render(tok) ==
    CASE tok.t = "code" -> <<"#">> \o tok.s
      [] tok.t = "name" -> <<"name:", " ">> \o tok.s
      [] OTHER -> tok.s

RECURSIVE Flatten(_)
Flatten(toks) ==
    IF toks = <<>> THEN <<>> ELSE Render(Head(toks)) \o Flatten(Tail(toks))

\* String.match with one of EMAIL_PATTERNS: the first piece of that kind.
FirstMatch(toks, kind) ==
    LET hits == SelectSeq(toks, LAMBDA tok : tok.t = kind)
    IN  IF hits = <<>> THEN <<>> ELSE hits[1].s

\* from.match(/<(.+)>/): from the first "<" with a later ">" to the last ">".
Bracketed(from) ==
    LET closes == {j \in 1..Len(from) : from[j] = ">"}
        opens  == {i \in 1..Len(from) :
                      from[i] = "<" /\ \E j \in closes : j > i + 1}
    IN  IF opens = {} THEN <<>>
        ELSE SubSeq(from, MinOf(opens) + 1, MaxOf(closes) - 1)

\* from.match(/"([^"]+)"/): the first non-empty run between two quotes.
Quoted(from) ==
    LET q == {i \in 1..Len(from) : from[i] = "\""}
        opens == {i \in q : \E j \in q : j > i + 1 /\ \A k \in (i + 1)..(j - 1) : k \notin q}
    IN  IF opens = {} THEN <<>>
        ELSE LET i == MinOf(opens)
             IN  SubSeq(from, i + 1, MinOf({j \in q : j > i}) - 1)

\* s.split(sep) without the empty pieces, sep being one character class.
WordsBy(s, seps) ==
    LET starts == {i \in 1..Len(s) : s[i] \notin seps /\ (i = 1 \/ s[i - 1] \in seps)}
        kth(k) == CHOOSE i \in starts : Cardinality({j \in starts : j < i}) = k - 1
        endOf(i) == MinOf({j \in i..Len(s) : j = Len(s) \/ s[j + 1] \in seps})
    IN  [k \in 1..Cardinality(starts) |-> SubSeq(s, kth(k), endOf(kth(k)))]

RECURSIVE JoinSpace(_)
JoinSpace(parts) ==
    IF parts = <<>> THEN <<>>
    ELSE IF Len(parts) = 1 THEN parts[1]
    ELSE parts[1] \o <<" ">> \o JoinSpace(Tail(parts))

RemoveAll(s, drops) == SelectSeq(s, LAMBDA c : c \notin drops)

LocalPart(email) ==
    LET ats == {i \in 1..Len(email) : email[i] = "@"}
    IN  IF ats = {} THEN email ELSE SubSeq(email, 1, MinOf(ats) - 1)

StartsWith(s, prefix) == Len(s) >= Len(prefix) /\ SubSeq(s, 1, Len(prefix)) = prefix

\* DatabaseStorage.normalizePhone
normalizePhoneKeepingCode(phone) ==
    LET stripped == RemoveAll(phone, {"-", "(", ")"} \union WsChars)
    IN  IF StartsWith(stripped, <<"+", "9", "7", "2">>) THEN Tail(stripped)
        ELSE IF StartsWith(stripped, <<"9", "7", "2">>)
        THEN <<"0">> \o SubSeq(stripped, 4, Len(stripped))
        ELSE stripped

normalizePhone(phone) ==
    LET stripped == RemoveAll(phone, {"-", "(", ")"} \union WsChars)
        local == IF StartsWith(stripped, <<"+", "9", "7", "2">>)
                 THEN <<"0">> \o SubSeq(stripped, 5, Len(stripped))
                 ELSE IF StartsWith(stripped, <<"9", "7", "2">>)
                 THEN <<"0">> \o SubSeq(stripped, 4, Len(stripped))
                 ELSE stripped
    IN  IF Len(local) = 9 /\ ~StartsWith(local, <<"0">>) THEN <<"0">> \o local ELSE local

applicationKeywords == {<<"c", "v">>}

isJobApplicationEmail(subject, body, from) ==
    LET text == ToLower(Flatten(subject) \o <<" ">> \o Flatten(body) \o <<" ">> \o from)
    IN  \E keyword \in applicationKeywords : Includes(text, keyword)

BodyLimit == 500

NameParts(parts) ==
    IF parts = <<>> THEN <<<<>>, <<>>>> ELSE <<parts[1], JoinSpace(Tail(parts))>>

parseCandidate(subject, body, from) ==
    LET fullText == subject \o body
        emailMatch == FirstMatch(fullText, "email")
        candidateEmail == IF emailMatch # <<>> THEN emailMatch
                          ELSE IF Bracketed(from) # <<>> THEN Bracketed(from)
                          ELSE from
        phoneMatch == FirstMatch(fullText, "phone")
        nameMatch == FirstMatch(fullText, "name")
        senderName == Quoted(from)
        emailParts == SelectSeq(
                        WordsBy([i \in 1..Len(LocalPart(candidateEmail)) |->
                                   IF LocalPart(candidateEmail)[i] \in {".", "_"}
                                   THEN " " ELSE LocalPart(candidateEmail)[i]],
                                {" "}),
                        LAMBDA part : Len(part) > 1)
        name == IF nameMatch # <<>> THEN NameParts(WordsBy(Trim(nameMatch), WsChars))
                ELSE IF senderName # <<>> /\ senderName # candidateEmail
                     THEN NameParts(WordsBy(Trim(senderName), WsChars))
                ELSE IF Len(emailParts) >= 2 THEN NameParts(emailParts)
                ELSE <<<<>>, <<>>>>
    IN  [firstName |-> name[1], lastName |-> name[2], email |-> candidateEmail,
         phone |-> RemoveAll(phoneMatch, {"-"} \union WsChars),
         jobCode |-> FirstMatch(fullText, "code"),
         originalSubject |-> Flatten(subject),
         originalBody |-> Substring(Flatten(body), BodyLimit)]

(***************************************************************************)
(* createCandidateFromEmail: the values it writes.                         *)
(***************************************************************************)
NewMailBlock(d) ==
    <<"LF", "LF", "--- new mail ---", "LF", "subject: ">> \o d.originalSubject
      \o <<"LF", "content:", "LF">> \o d.originalBody

OriginalMailBlock(d) ==
    <<"--- original mail ---", "LF", "subject: ">> \o d.originalSubject
      \o <<"LF", "content:", "LF">> \o d.originalBody

\* The fields the pipeline sets on an existing candidate, from the row it read.
MergedFieldsFillingGaps(existing, d) ==
    [firstName |-> Or(existing.firstName, d.firstName),
     lastName |-> Or(existing.lastName, d.lastName),
     mobile |-> Or(existing.mobile, d.phone),
     notes |-> Trim(existing.notes \o NewMailBlock(d))]

MergedFields(existing, d) ==
    [firstName |-> Or(d.firstName, existing.firstName),
     lastName |-> Or(d.lastName, existing.lastName),
     mobile |-> Or(d.phone, existing.mobile),
     notes |-> Trim(existing.notes \o NewMailBlock(d))]

\* The candidate the pipeline creates when it found none.
NewCandidateFromEmail(d) ==
    [firstName |-> Or(d.firstName, <<"candidate">>),
     lastName |-> Or(d.lastName, <<"new">>),
     email |-> d.email, mobile |-> d.phone,
     profession |-> IF d.jobCode # <<>> THEN <<"application by mail">> ELSE <<>>,
     notes |-> OriginalMailBlock(d)]

\* existingCandidates.candidates.find(c => c.email === candidateData.email)
FindByEmail(rows, email) ==
    LET hits == SelectSeq(rows, LAMBDA c : c.email = email)
    IN  IF hits = <<>> THEN <<>> ELSE <<hits[1]>>

JobMatches(job, code) ==
    \/ job.id = code
    \/ Includes(job.title, code)
    \/ Includes(job.description, code)

\* jobs.jobs.find(...): the first job of the page that matches the code.
FindJob(rows, code) ==
    LET hits == SelectSeq(rows, LAMBDA job : JobMatches(job, code))
    IN  IF hits = <<>> THEN <<>> ELSE <<hits[1]>>

CandidatesPage == 100
JobsPage == 100

(***************************************************************************)
(* Inputs.                                                                 *)
(***************************************************************************)
EmailA == <<"a", "@", "x">>
EmailUpperA == <<"A", "@", "x">>
EmailBA == <<"b", "a", "@", "x">>

Txt(s) == [t |-> "text", s |-> s]
Tok(kind, s) == [t |-> kind, s |-> s]

ManualProfiles ==
    { [email |-> EmailA, firstName |-> <<"D">>, lastName |-> <<"L">>,
       mobile |-> <<"0", "5", "1">>, profession |-> <<>>, notes |-> <<>>],
      [email |-> EmailBA, firstName |-> <<"E">>, lastName |-> <<"M">>,
       mobile |-> <<>>, profession |-> <<>>, notes |-> <<" ", "n">>] }

\* An application for job code 7 with an address, a phone and a name in the text.
MsgFull ==
    [subject |-> <<Txt(<<"c", "v", " ">>), Tok("code", <<"7">>)>>,
     body |-> <<Tok("name", <<"R", " ", "S">>), Txt(<<" ">>), Tok("email", EmailA),
                Txt(<<" ">>), Tok("phone", <<"0", "5", "-", "2">>), Txt(<<"LF">>)>>,
     from |-> <<"j", "@", "b">>]
\* The same address in capitals, the phone of the first manual profile, no code.
MsgUpper ==
    [subject |-> <<Txt(<<"C", "V">>)>>,
     body |-> <<Tok("email", EmailUpperA), Txt(<<" ">>), Tok("phone", <<"0", "5", " ", "1">>)>>,
     from |-> <<"j", "@", "b">>]
\* No address in the text: the bracketed address of the From header is used.
MsgFromOnly ==
    [subject |-> <<Txt(<<"c", "v">>)>>,
     body |-> <<Txt(<<"h", "i">>)>>,
     from |-> <<"\"", "T", " ", "U", "\"", " ", "<">> \o EmailA \o <<">">>]
\* No address anywhere and no From header.
MsgNoEmail ==
    [subject |-> <<Txt(<<"c", "v", " ">>), Tok("code", <<"7">>)>>,
     body |-> <<Tok("phone", <<"0", "5", "1">>)>>,
     from |-> <<>>]
\* Not an application: none of the keywords.
MsgOther ==
    [subject |-> <<Txt(<<"h", "i">>)>>,
     body |-> <<Tok("email", EmailBA)>>,
     from |-> <<"j", "@", "b">>]
\* A body longer than the 500 characters kept, job code in a job's title.
MsgLong ==
    [subject |-> <<Txt(<<"c", "v", " ">>), Tok("code", <<"8">>)>>,
     body |-> <<Tok("email", EmailBA), Txt([i \in 1..(BodyLimit + 1) |-> "z"])>>,
     from |-> <<>>]

\* Concurrent runs take the two messages of one sender; runs one at a time
\* take every message.
Messages == {MsgFull, MsgFromOnly}
SeqMessages == {MsgFull, MsgUpper, MsgFromOnly, MsgNoEmail, MsgOther, MsgLong}

Job(id, title, description) == [id |-> id, title |-> title, description |-> description]

JobTable ==
    << Job(<<"7">>, <<"d", "e", "v">>, <<>>),
       Job(<<"j", "2">>, <<"q", "a", " ", "8">>, <<"t">>),
       Job(<<"j", "3">>, <<"o", "p", "s">>, <<"7", " ", "8">>) >>

\* 101 jobs: the oldest is the only one that matches code 7, and getJobs(100, 0)
\* returns the 100 newer ones.
Digit(n) == <<"0", "1", "2", "3", "4", "5", "6", "7", "8", "9">>[n + 1]

ManyJobs ==
    [i \in 1..(JobsPage + 1) |->
        IF i = 1 THEN Job(<<"7">>, <<"d", "e", "v">>, <<>>)
        ELSE IF i = 2 THEN Job(<<"j", "2">>, <<"q", "a", " ", "8">>, <<"t">>)
        ELSE Job(<<"f", Digit(i \div 100), Digit((i \div 10) % 10), Digit(i % 10)>>,
                 <<"o", "p", "s">>, <<>>)]

LocInit ==
    [kind |-> "none", msg |-> <<>>, data |-> <<>>, candidate |-> <<>>,
     existing |-> <<>>, candidateId |-> 0, nextNumber |-> 0, job |-> <<>>,
     before |-> <<>>, origin |-> <<>>, application |-> <<>>]

InitStore(jobTable) ==
    /\ candidates = <<>>
    /\ jobs = jobTable
    /\ jobApplications = <<>>
    /\ nextId = 1
    /\ pc = [p \in Procs |-> "idle"]
    /\ loc = [p \in Procs |-> LocInit]
    /\ ops = 0
    /\ assignLog = <<>>
    /\ lastUpdate = <<>>
    /\ lastRun = <<>>
    /\ inbox = <<>>
    /\ cycles = <<>>
    /\ queue = <<>>
    /\ handled = <<>>
    /\ caught = <<>>

InitWith(jobTable) == InitStore(jobTable) /\ calls = <<>>

Init == InitWith(JobTable)
InitManyJobs == InitWith(ManyJobs)

AllIdle == \A p \in Procs : pc[p] = "idle"

\* Runs in flight are interchangeable: a new one takes the lowest free slot.
FreeSlot(p) == pc[p] = "idle" /\ \A q \in 1..(p - 1) : pc[q] # "idle"

Store == [candidates |-> candidates, jobApplications |-> jobApplications]

\* The end of a call or of a pipeline run.  lastRun keeps, for the checks, the
\* message of the run and the store as the run found and left it.
Finish(p) ==
    /\ pc' = [pc EXCEPT ![p] = "idle"]
    /\ loc' = [loc EXCEPT ![p] = LocInit]
    /\ IF loc[p].kind = "mail"
       THEN lastRun' = <<[msg |-> loc[p].msg, data |-> loc[p].data,
                          candidateId |-> loc[p].candidateId,
                          before |-> loc[p].before,
                          after |-> [candidates |-> candidates',
                                     jobApplications |-> jobApplications']]>>
       ELSE UNCHANGED lastRun

\* A call or a run that returns.
Returns(p) == Finish(p) /\ UNCHANGED excVars

\* A call or a run that throws: the catch of createCandidateFromEmail (or the
\* route's) logs the error and the run ends; nothing else is touched.
Rethrown(p) ==
    /\ Finish(p)
    /\ queue' = <<>>
    /\ caught' = Append(caught, [origin |-> loc[p].origin, handled |-> Len(handled),
                                 stage |-> "run"])

Caught(p) ==
    /\ Finish(p)
    /\ UNCHANGED queue
    /\ caught' = Append(caught, [origin |-> loc[p].origin, handled |-> Len(handled),
                                 stage |-> "run"])

(***************************************************************************)
(* POST /api/candidates and DELETE /api/candidates/:id.                    *)
(***************************************************************************)
\* POST /api/candidates: the route hands the validated body to createCandidate.
PostCandidate(p, profile) ==
    /\ FreeSlot(p)
    /\ ops < MaxOps
    /\ ops' = ops + 1
    /\ pc' = [pc EXCEPT ![p] = "readmax"]
    /\ loc' = [loc EXCEPT ![p] = [LocInit EXCEPT !.kind = "manual", !.candidate = profile]]
    /\ UNCHANGED <<candidates, jobs, jobApplications, nextId, assignLog, lastUpdate, lastRun>>
    /\ UNCHANGED <<pollVars, excVars, calls>>

\* createCandidate, first statement: select the highest candidate number.
ReadMaxNumber(p) ==
    /\ pc[p] = "readmax"
    /\ loc' = [loc EXCEPT ![p].nextNumber = NextNumber(candidates)]
    /\ pc' = [pc EXCEPT ![p] = "insert"]
    /\ UNCHANGED <<candidates, jobs, jobApplications, nextId, ops, assignLog, lastUpdate, lastRun>>
    /\ UNCHANGED <<pollVars, excVars, calls>>

\* createCandidate, second statement: the insert.  email is UNIQUE NOT NULL:
\* a second row with the same email is rejected and the call throws; in the
\* pipeline the outer catch of createCandidateFromEmail ends the run.
InsertCandidate(p) ==
    /\ pc[p] = "insert"
    /\ UNCHANGED <<jobs, jobApplications, ops, lastUpdate, pollVars, calls>>
    /\ IF EmailTaken(loc[p].candidate.email)
       THEN /\ UNCHANGED <<candidates, nextId, assignLog>>
            /\ Caught(p)
       ELSE /\ candidates' = Append(candidates,
                                NewCandidateRow(nextId, loc[p].nextNumber, loc[p].candidate))
            /\ nextId' = nextId + 1
            /\ assignLog' = Append(assignLog, loc[p].nextNumber)
            /\ IF loc[p].kind = "mail" /\ loc[p].data.jobCode # <<>>
               THEN /\ pc' = [pc EXCEPT ![p] = "jobs"]
                    /\ loc' = [loc EXCEPT ![p].candidateId = nextId]
                    /\ UNCHANGED <<lastRun, excVars>>
               ELSE Returns(p)

\* DELETE /api/candidates/:id -> deleteCandidate.  job_applications.candidate_id
\* references candidates.id, so a candidate with applications is not deleted.
DeleteCandidate(id) ==
    /\ ops < MaxOps
    /\ id \in CandidateIds
    /\ ops' = ops + 1
    /\ IF \E i \in 1..Len(jobApplications) : jobApplications[i].candidateId = id
       THEN UNCHANGED candidates
       ELSE candidates' = SelectSeq(candidates, LAMBDA c : c.id # id)
    /\ UNCHANGED <<jobs, jobApplications, nextId, pc, loc, assignLog, lastUpdate, lastRun>>
    /\ UNCHANGED <<pollVars, excVars, calls>>

(***************************************************************************)
(* The inbound pipeline: one run per fetched message (the stream's 'end'   *)
(* handler of checkCpanelEmails and createCandidateFromEmail).  Every      *)
(* awaited storage call is a step of its own.                              *)
(***************************************************************************)
\* if (candidate.email)
EmailAlwaysResolved(d) == TRUE

EmailResolved(d) == d.email # <<>>

\* The handler up to its first storage call: classify, parse, test the email.
StartRun(p, m, origin) ==
    /\ FreeSlot(p)
    /\ UNCHANGED <<candidates, jobs, jobApplications, nextId, assignLog, lastUpdate>>
    /\ LET d == parseCandidate(m.subject, m.body, m.from)
       IN  IF isJobApplicationEmail(m.subject, m.body, m.from) /\ EmailResolved(d)
           THEN /\ pc' = [pc EXCEPT ![p] = "lookup"]
                /\ loc' = [loc EXCEPT ![p] =
                             [LocInit EXCEPT !.kind = "mail", !.msg = m, !.data = d,
                                             !.before = Store, !.origin = origin]]
                /\ UNCHANGED lastRun
           ELSE /\ UNCHANGED <<pc, loc>>
                /\ lastRun' = <<[msg |-> m, data |-> d, candidateId |-> 0,
                                 before |-> Store, after |-> Store]>>

\* A message handed to the handler on its own, outside a poll cycle.
ReceiveMessage(p, m) ==
    /\ ops < MaxOps
    /\ ops' = ops + 1
    /\ StartRun(p, m, <<>>)
    /\ UNCHANGED <<pollVars, excVars, calls>>

\* storage.getCandidates(100, 0, email), then .some / .find on the exact email.
LookupCandidate(p) ==
    /\ pc[p] = "lookup"
    /\ LET d == loc[p].data
           found == FindByEmail(getCandidates(CandidatesPage, 0, d.email), d.email)
       IN  IF found # <<>>
           THEN /\ pc' = [pc EXCEPT ![p] = "update"]
                /\ loc' = [loc EXCEPT ![p].existing = found,
                                      ![p].candidateId = found[1].id]
           ELSE /\ pc' = [pc EXCEPT ![p] = "readmax"]
                /\ loc' = [loc EXCEPT ![p].candidate = NewCandidateFromEmail(d)]
    /\ UNCHANGED <<candidates, jobs, jobApplications, nextId, ops, assignLog, lastUpdate, lastRun>>
    /\ UNCHANGED <<pollVars, excVars, calls>>

\* storage.updateCandidate(id, fields): the row with that id, if it is still there.
UpdatedRows(id, fields) ==
    [i \in 1..Len(candidates) |->
        IF candidates[i].id = id
        THEN [candidates[i] EXCEPT !.firstName = fields.firstName,
                                   !.lastName = fields.lastName,
                                   !.mobile = fields.mobile,
                                   !.notes = fields.notes]
        ELSE candidates[i]]

UpdateCandidate(p) ==
    /\ pc[p] = "update"
    /\ LET id == loc[p].candidateId
           fields == MergedFields(loc[p].existing[1], loc[p].data)
       IN  /\ candidates' = UpdatedRows(id, fields)
           /\ lastUpdate' = IF id \in CandidateIds
                            THEN <<[data |-> loc[p].data, existing |-> loc[p].existing[1],
                                    stored |-> CandidateById(id),
                                    after |-> RowById(UpdatedRows(id, fields), id)]>>
                            ELSE lastUpdate
    /\ UNCHANGED <<jobs, jobApplications, nextId, ops, assignLog, pollVars, excVars, calls>>
    /\ IF loc[p].data.jobCode # <<>>
       THEN /\ pc' = [pc EXCEPT ![p] = "jobs"]
            /\ UNCHANGED <<loc, lastRun>>
       ELSE Finish(p)

\* storage.getJobs(100, 0) and jobs.jobs.find(...).
LookupJob(p) ==
    /\ pc[p] = "jobs"
    /\ UNCHANGED <<candidates, jobs, jobApplications, nextId, ops, assignLog, lastUpdate>>
    /\ UNCHANGED <<pollVars, excVars, calls>>
    /\ LET job == FindJob(getJobs(JobsPage, 0), loc[p].data.jobCode)
       IN  IF job # <<>>
           THEN /\ pc' = [pc EXCEPT ![p] = "appcheck"]
                /\ loc' = [loc EXCEPT ![p].job = job,
                                      ![p].application =
                                          <<[candidateId |-> loc[p].candidateId,
                                             jobId |-> job[1].id,
                                             status |-> "submitted"]>>]
                /\ UNCHANGED lastRun
           ELSE Finish(p)

(***************************************************************************)
(* createJobApplication(application), called by the pipeline and by        *)
(* POST /api/job-applications.  The call's three statements (the select of *)
(* the pair's applications, the update and the insert) are steps of their  *)
(* own.  For a call from outside the pipeline, calls holds the call when   *)
(* it has ended: the rows it found at its start and left at its end, what  *)
(* it returned or threw, and the route's response.                         *)
(***************************************************************************)
\* application_status of shared/schema.ts: the values the status column takes.
ApplicationStatuses == {"submitted", "reviewed", "interview", "rejected", "accepted"}

InterviewScheduled == "interview_scheduled"

\* The error createJobApplication throws on a duplicate, and a database error.
DuplicateError(existing) ==
    [message |-> "duplicate",
     existingApplication |-> <<[row |-> existing, alreadyExisted |-> TRUE]>>]

DatabaseError == [message |-> "database", existingApplication |-> <<>>]

\* The catch of the route when the body was valid, and its answer on success.
RouteFailure(thrown) ==
    [status |-> 500, json |-> [message |-> "Failed to create job application",
                               existingApplication |-> <<>>]]

RouteCreated(returned) == [status |-> 201, json |-> returned]

ValidationError == [status |-> 400, json |-> [message |-> "Validation error"]]

CallEnded(p, after, returned, thrown) ==
    [op |-> "createJobApplication", application |-> loc[p].application[1],
     before |-> loc[p].before.jobApplications, after |-> after,
     returned |-> returned, thrown |-> thrown,
     response |-> IF loc[p].kind # "route" THEN <<>>
                  ELSE IF thrown # <<>> THEN <<RouteFailure(thrown[1])>>
                  ELSE <<RouteCreated(returned[1])>>]

\* createJobApplication returns: the pipeline goes on, another caller gets
\* the row.
ApplicationReturns(p, returned) ==
    /\ Returns(p)
    /\ IF loc[p].kind = "mail" THEN UNCHANGED calls
       ELSE calls' = <<CallEnded(p, jobApplications', <<returned>>, <<>>)>>

\* createJobApplication throws: the inner catch of createCandidateFromEmail
\* logs the error, another caller gets it.
ApplicationThrows(p, error) ==
    IF loc[p].kind = "mail"
    THEN Caught(p) /\ UNCHANGED calls
    ELSE /\ Returns(p)
         /\ calls' = <<CallEnded(p, jobApplications', <<>>, <<error>>)>>

\* A call of createJobApplication from outside the pipeline.
CreateJobApplication(p, application) ==
    /\ FreeSlot(p)
    /\ ops < MaxOps
    /\ ops' = ops + 1
    /\ pc' = [pc EXCEPT ![p] = "appcheck"]
    /\ loc' = [loc EXCEPT ![p] = [LocInit EXCEPT !.kind = "call", !.before = Store,
                                               !.application = <<application>>]]
    /\ UNCHANGED <<candidates, jobs, jobApplications, nextId, assignLog, lastUpdate, lastRun>>
    /\ UNCHANGED <<pollVars, excVars, calls>>

\* POST /api/job-applications: insertJobApplicationSchema.parse(req.body), then
\* createJobApplication; a ZodError is answered with 400.
PostJobApplication(p, body) ==
    /\ FreeSlot(p)
    /\ ops < MaxOps
    /\ ops' = ops + 1
    /\ UNCHANGED <<candidates, jobs, jobApplications, nextId, assignLog, lastUpdate, lastRun>>
    /\ UNCHANGED <<pollVars, excVars>>
    /\ IF body.status \in ApplicationStatuses
       THEN /\ pc' = [pc EXCEPT ![p] = "appcheck"]
            /\ loc' = [loc EXCEPT ![p] = [LocInit EXCEPT !.kind = "route", !.before = Store,
                                                       !.application = <<body>>]]
            /\ UNCHANGED calls
       ELSE /\ UNCHANGED <<pc, loc>>
            /\ calls' = <<[op |-> "createJobApplication", application |-> body,
                           before |-> jobApplications, after |-> jobApplications,
                           returned |-> <<>>, thrown |-> <<>>,
                           response |-> <<ValidationError>>]>>

\* createJobApplication, first statement: the applications of this candidate
\* for this job.  With one found, the call goes on to the update when it asks
\* for 'interview_scheduled' and throws otherwise; existing[0] is whichever
\* row the select returns first.
NoExistingApplications(candidateId, jobId) == <<>>

ExistingApplications(candidateId, jobId) ==
    SelectSeq(jobApplications,
              LAMBDA a : a.candidateId = candidateId /\ a.jobId = jobId)

CheckDuplicate(p) ==
    /\ pc[p] = "appcheck"
    /\ UNCHANGED <<candidates, jobs, jobApplications, nextId, ops, assignLog, lastUpdate>>
    /\ UNCHANGED pollVars
    /\ LET application == loc[p].application[1]
           existing == ExistingApplications(application.candidateId, application.jobId)
       IN  IF existing # <<>>
           THEN \E i \in 1..Len(existing) :
                   IF application.status = InterviewScheduled
                   THEN /\ pc' = [pc EXCEPT ![p] = "appupdate"]
                        /\ loc' = [loc EXCEPT ![p].existing = <<existing[i]>>]
                        /\ UNCHANGED <<lastRun, excVars, calls>>
                   ELSE ApplicationThrows(p, DuplicateError(existing[i]))
           ELSE /\ pc' = [pc EXCEPT ![p] = "appinsert"]
                /\ UNCHANGED <<loc, lastRun, excVars, calls>>

\* createJobApplication, the update of the existing row to
\* 'interview_scheduled'.  The status column is of the enum type: a value
\* outside it is rejected by the database and the call throws.
UpdateApplication(p) ==
    /\ pc[p] = "appupdate"
    /\ UNCHANGED <<candidates, jobs, nextId, ops, assignLog, lastUpdate, pollVars>>
    /\ LET id == loc[p].existing[1].id
       IN  IF InterviewScheduled \in ApplicationStatuses
           THEN /\ jobApplications' =
                      [i \in 1..Len(jobApplications) |->
                          IF jobApplications[i].id = id
                          THEN [jobApplications[i] EXCEPT !.status = InterviewScheduled]
                          ELSE jobApplications[i]]
                /\ ApplicationReturns(p, [row |-> [loc[p].existing[1] EXCEPT
                                                      !.status = InterviewScheduled],
                                          alreadyExisted |-> TRUE])
           ELSE /\ UNCHANGED jobApplications
                /\ ApplicationThrows(p, DatabaseError)

\* createJobApplication, last statement: the insert.  candidate_id and job_id
\* are foreign keys and status is of the enum type: the insert throws when
\* the candidate or the job is not there or the status is not of the enum.
InsertApplication(p) ==
    /\ pc[p] = "appinsert"
    /\ UNCHANGED <<candidates, jobs, ops, assignLog, lastUpdate, pollVars>>
    /\ LET application == loc[p].application[1]
           row == [id |-> nextId, candidateId |-> application.candidateId,
                   jobId |-> application.jobId, status |-> application.status]
       IN  IF /\ application.candidateId \in CandidateIds
              /\ application.jobId \in JobIds
              /\ application.status \in ApplicationStatuses
           THEN /\ jobApplications' = Append(jobApplications, row)
                /\ nextId' = nextId + 1
                /\ ApplicationReturns(p, [row |-> row, alreadyExisted |-> FALSE])
           ELSE /\ UNCHANGED <<jobApplications, nextId>>
                /\ ApplicationThrows(p, DatabaseError)

(***************************************************************************)
(* findCandidateByContactInfo(mobile, email, nationalId) and the calls     *)
(* that give a stored candidate its contact keys.  calls holds the last    *)
(* read-only call with the rows it read and what it returned.  A mobile of *)
(* <<>> is NULL.                                                           *)
(***************************************************************************)
\* REPLACE(s, from, to) of PostgreSQL: every occurrence, left to right.
RECURSIVE SqlReplace(_, _, _)
SqlReplace(s, from, to) ==
    IF Len(s) < Len(from) THEN s
    ELSE IF SubSeq(s, 1, Len(from)) = from
    THEN to \o SqlReplace(SubSeq(s, Len(from) + 1, Len(s)), from, to)
    ELSE <<s[1]>> \o SqlReplace(Tail(s), from, to)

\* REPLACE(REPLACE(REPLACE(mobile, '-', ''), ' ', ''), '+972', '0')
StoredMobileKey(mobile) ==
    SqlReplace(SqlReplace(SqlReplace(mobile, <<"-">>, <<>>), <<" ">>, <<>>),
               <<"+", "9", "7", "2">>, <<"0">>)

\* The mobile condition: the stored value, rewritten in SQL, against the
\* normalized query.
MobileMatches(stored, mobile) ==
    stored # <<>> /\ StoredMobileKey(stored) = normalizePhone(mobile)

\* email && email !== '' && !email.includes('temp.local')
UsableEmail(email) == email # <<>> /\ ~Includes(email, <<"temp.local">>)

\* The conditions pushed for the keys supplied, joined with OR.
ContactMatches(c, mobile, email, nationalId) ==
    \/ (mobile # <<>> /\ MobileMatches(c.mobile, mobile))
    \/ (UsableEmail(email) /\ ToLower(c.email) = ToLower(email))
    \/ (nationalId # <<>> /\ c.nationalId = nationalId)

\* The rows the select may return first: it has no ORDER BY, so any of the
\* matching rows.  <<>> is undefined.
findCandidateByContactInfo(mobile, email, nationalId) ==
    LET hits == {i \in 1..Len(candidates) :
                    ContactMatches(candidates[i], mobile, email, nationalId)}
    IN  IF (mobile = <<>> /\ email = <<>> /\ nationalId = <<>>)
           \/ (mobile = <<>> /\ ~UsableEmail(email) /\ nationalId = <<>>)
           \/ hits = {}
        THEN {<<>>}
        ELSE {<<candidates[i]>> : i \in hits}

FindCandidate(mobile, email, nationalId) ==
    /\ \E result \in findCandidateByContactInfo(mobile, email, nationalId) :
          calls' = <<[op |-> "findCandidateByContactInfo", mobile |-> mobile,
                      email |-> email, nationalId |-> nationalId,
                      rows |-> candidates, result |-> result]>>
    /\ UNCHANGED <<candidates, jobs, jobApplications, nextId, pc, loc, ops,
                   assignLog, lastUpdate, lastRun, pollVars, excVars>>

\* PUT /api/candidates/:id with a mobile: updateCandidate(id, { mobile }).
PutCandidate(id, mobile) ==
    /\ ops < MaxOps
    /\ id \in CandidateIds
    /\ ops' = ops + 1
    /\ candidates' = [i \in 1..Len(candidates) |->
                         IF candidates[i].id = id
                         THEN [candidates[i] EXCEPT !.mobile = mobile]
                         ELSE candidates[i]]
    /\ UNCHANGED <<jobs, jobApplications, nextId, pc, loc, assignLog, lastUpdate,
                   lastRun, pollVars, excVars, calls>>

(***************************************************************************)
(* searchCVs({ positiveKeywords, negativeKeywords, includeNotes }).  No    *)
(* candidate events are stored, so the notes of a candidate are its own.   *)
(***************************************************************************)
\* The files under uploads/: their bytes, and the text that mammoth (for a
\* DOCX) or pdftotext (for a PDF) gets out of them.  A byte is a character,
\* "LF", or "xFF" for a byte that is not valid UTF-8.
UploadedFiles ==
    { [path |-> <<"uploads/", "f", "1">>, bytes |-> <<"P", "K", "1">>,
       text |-> <<"J", "a", "v", "a">>],
      [path |-> <<"uploads/", "f", "2">>, bytes |-> <<"P", "K", "2">>,
       text |-> <<"j", "a", "v", "a", " ", "j", "u", "n">>],
      [path |-> <<"uploads/", "f", "3">>,
       bytes |-> <<"%", "P", "D", "F", "xFF", "c", "@", "x", ".", "i", "l", " ", "0", "5", "1", "LF">>,
       text |-> <<"c", "v">>],
      [path |-> <<"uploads/", "f", "4">>, bytes |-> <<"h", "i">>, text |-> <<>>],
      [path |-> <<"uploads/", "f", "5">>,
       bytes |-> <<"c", "v", " ", "a", "@", "x", ".", "i", "l", "LF", "xFF", "j", "a", "v", "a">>,
       text |-> <<>>],
      [path |-> <<"uploads/", "f", "6">>, bytes |-> <<"%", "P">>, text |-> <<>>],
      [path |-> <<"uploads/", "f", "7">>, bytes |-> <<>>, text |-> <<>>] }

\* Buffer.toString('utf8'): a byte sequence that is not UTF-8 becomes U+FFFD.
Utf8Decode(bytes) == [i \in 1..Len(bytes) |-> IF bytes[i] = "xFF" THEN "U+FFFD" ELSE bytes[i]]

\* strings(1): the runs of at least four printable characters, one per line.
Printable(b) == b \notin {"LF", "xFF"}

StringsOutput(bytes) ==
    LET starts == {i \in 1..Len(bytes) :
                      /\ Printable(bytes[i])
                      /\ (i = 1 \/ ~Printable(bytes[i - 1]))}
        endOf(i) == MaxOf({j \in i..Len(bytes) : \A k \in i..j : Printable(bytes[k])})
        runs == {i \in starts : endOf(i) - i + 1 >= 4}
        kth(k) == CHOOSE i \in runs : Cardinality({j \in runs : j < i}) = k - 1
        Lines[k \in 0..Cardinality(runs)] ==
            IF k = 0 THEN <<>>
            ELSE Lines[k - 1] \o SubSeq(bytes, kth(k), endOf(kth(k))) \o <<"LF">>
    IN  Lines[Cardinality(runs)]

\* What the tools the extractor runs do: pdftotext and strings each work or
\* fail (not installed, or an exit status other than 0).
ToolOutcomes == [pdftotext : {"ok", "fails"}, strings : {"ok", "fails"}]

ToolsWork == [pdftotext |-> "ok", strings |-> "ok"]

\* cvPath.startsWith('uploads/') ? cvPath : path.join('uploads', cvPath)
FullPath(cvPath) ==
    IF StartsWith(cvPath, <<"uploads/">>) THEN cvPath ELSE <<"uploads/">> \o cvPath

\* extractTextFromCVFile(cvPath) with the tools doing as told: the text it
\* returns, the temporary files it wrote and those it left behind.
ExtractText(cvPath, tools) ==
    LET fullPath == FullPath(cvPath)
        none == [text |-> <<>>, written |-> {}, left |-> {}]
    IN  IF ~\E f \in UploadedFiles : f.path = fullPath THEN none
        ELSE LET f == CHOOSE g \in UploadedFiles : g.path = fullPath
                 fileBuffer == f.bytes
                 isPDF == Len(fileBuffer) >= 4 /\ SubSeq(fileBuffer, 1, 4) = <<"%", "P", "D", "F">>
                 isDOCX == Len(fileBuffer) >= 2 /\ SubSeq(fileBuffer, 1, 2) = <<"P", "K">>
                 afterWrite == {"tempFilePath"}
                 afterPdftotext == afterWrite \union {"textFilePath"}
             IN  IF isDOCX THEN [none EXCEPT !.text = f.text]
                 ELSE IF isPDF
                 THEN IF tools.pdftotext = "ok"
                      THEN [text |-> f.text, written |-> afterPdftotext,
                            left |-> (afterPdftotext \ {"tempFilePath"}) \ {"textFilePath"}]
                      ELSE IF tools.strings = "ok"
                      THEN [text |-> Utf8Decode(StringsOutput(fileBuffer)),
                            written |-> afterWrite, left |-> afterWrite \ {"tempFilePath"}]
                      ELSE [text |-> <<>>, written |-> afterWrite, left |-> afterWrite]
                 ELSE none

\* The extraction as searchCVs gets it; the files it reads here are DOCX
\* files, which need neither tool.
extractTextFromCVFile(cvPath) == ExtractText(cvPath, ToolsWork).text

\* A call of extractTextFromCVFile on its own.
ExtractTextFromCVFile(cvPath, tools) ==
    /\ calls' = <<[op |-> "extractTextFromCVFile", cvPath |-> cvPath, tools |-> tools,
                   bytes |-> [i \in 1..Cardinality({f \in UploadedFiles : f.path = FullPath(cvPath)}) |->
                                (CHOOSE f \in UploadedFiles : f.path = FullPath(cvPath)).bytes],
                   written |-> ExtractText(cvPath, tools).written,
                   left |-> ExtractText(cvPath, tools).left,
                   result |-> ExtractText(cvPath, tools).text]>>
    /\ UNCHANGED <<candidates, jobs, jobApplications, nextId, pc, loc, ops,
                   assignLog, lastUpdate, lastRun, pollVars, excVars>>

textContainsKeywordCaseSensitive(text, keyword) ==
    text # <<>> /\ keyword # <<>> /\ Includes(text, keyword)

textContainsKeyword(text, keyword) ==
    text # <<>> /\ keyword # <<>> /\ Includes(ToLower(text), ToLower(keyword))

\* Whether searchCVs extracts the text of the candidate's file.
ExtractsOnDemand(c) == c.cvPath # <<>> /\ c.cvContent = <<>>

\* candidateText: name and profession, the CV text stored or extracted, and
\* the notes when asked for.
CandidateText(c, includeNotes) ==
    LET nameProfession == Trim(c.firstName \o <<" ">> \o c.lastName \o <<" ">> \o c.profession)
        withContent == IF c.cvContent # <<>>
                       THEN nameProfession \o <<" ">> \o c.cvContent
                       ELSE nameProfession
        withFile == IF ExtractsOnDemand(c) /\ extractTextFromCVFile(c.cvPath) # <<>>
                    THEN withContent \o <<" ">> \o extractTextFromCVFile(c.cvPath)
                    ELSE withContent
    IN  IF includeNotes /\ c.notes # <<>> THEN withFile \o <<" ">> \o c.notes ELSE withFile

\* matches: a positive keyword found when there are any, no negative one found.
KeywordsMatch(text, positiveKeywords, negativeKeywords) ==
    /\ (Len(positiveKeywords) > 0 =>
           \E i \in 1..Len(positiveKeywords) : textContainsKeyword(text, positiveKeywords[i]))
    /\ ~\E i \in 1..Len(negativeKeywords) : textContainsKeyword(text, negativeKeywords[i])

\* The result list: the matching candidates, newest first.
searchCVs(positiveKeywords, negativeKeywords, includeNotes) ==
    LET hits == SelectSeq(Reverse(candidates),
                          LAMBDA c : KeywordsMatch(CandidateText(c, includeNotes),
                                                   positiveKeywords, negativeKeywords))
    IN  [i \in 1..Len(hits) |->
            [candidateId |-> hits[i].id, email |-> hits[i].email,
             matchedKeywords |-> SelectSeq(positiveKeywords,
                 LAMBDA k : textContainsKeyword(CandidateText(hits[i], includeNotes), k)),
             cvPreview |-> CandidateText(hits[i], includeNotes)]]

\* What the loop leaves in the store for a candidate whose file it extracted.
CachedAfterExtraction(c) ==
    IF ExtractsOnDemand(c) THEN [c EXCEPT !.cvContent = extractTextFromCVFile(c.cvPath)] ELSE c

StoredAfterExtraction(c) == c

\* previously: what the search before this one extracted, when the last call
\* was a search of the same store.
SearchCVs(positiveKeywords, negativeKeywords, includeNotes) ==
    /\ candidates' = [i \in 1..Len(candidates) |-> StoredAfterExtraction(candidates[i])]
    /\ calls' = <<[op |-> "searchCVs", positiveKeywords |-> positiveKeywords,
                   negativeKeywords |-> negativeKeywords, includeNotes |-> includeNotes,
                   rows |-> candidates, after |-> candidates',
                   extracted |-> SelectSeq([i \in 1..Len(candidates) |-> candidates[i].cvPath],
                       LAMBDA path : \E i \in 1..Len(candidates) :
                           candidates[i].cvPath = path /\ ExtractsOnDemand(candidates[i])),
                   previously |-> IF calls # <<>> /\ calls[1].op = "searchCVs"
                                        /\ calls[1].after = candidates
                                     THEN <<calls[1].extracted>> ELSE <<>>,
                   result |-> searchCVs(positiveKeywords, negativeKeywords, includeNotes)]>>
    /\ UNCHANGED <<jobs, jobApplications, nextId, pc, loc, ops,
                   assignLog, lastUpdate, lastRun, pollVars, excVars>>

(***************************************************************************)
(* searchCandidatesByKeywords(keywords, limit, offset): the indexed search *)
(* on the stored CV text.  to_tsvector / to_tsquery are taken as the       *)
(* lower-cased words of the text and of the terms (no stemming, no stop    *)
(* words); rows of equal rank come in any order.                           *)
(***************************************************************************)
KeywordListWhole(keywords) == IF keywords = <<>> THEN <<>> ELSE <<keywords>>

\* keywords.split(' ').filter(k => k.trim().length > 0)
KeywordList(keywords) == SelectSeq(WordsBy(keywords, {" "}), LAMBDA k : Trim(k) # <<>>)

\* cv_content IS NOT NULL AND to_tsvector(cv_content) @@ to_tsquery(t1 & t2 ...)
TsMatches(c, terms) ==
    /\ c.cvContent # <<>>
    /\ LET words == WordsBy(ToLower(c.cvContent), WsChars)
       IN  \A i \in 1..Len(terms) :
              \E j \in 1..Len(words) : words[j] = ToLower(Trim(terms[i]))

\* The statements the call sends to the store and what it returns, for one
\* order of the matching rows.
searchCandidatesByKeywords(keywords, limit, offset) ==
    LET terms == KeywordList(keywords)
        hits == SelectSeq(candidates, LAMBDA c : TsMatches(c, terms))
    IN  IF Len(terms) = 0
        THEN {[queries |-> 0, candidates |-> <<>>, total |-> 0]}
        ELSE IF Len(hits) = 0
        THEN {[queries |-> 1, candidates |-> <<>>, total |-> 0]}
        ELSE {[queries |-> 2,
               candidates |-> Page([i \in 1..Len(hits) |-> hits[order[i]]], limit, offset),
               total |-> Len(hits)] : order \in Permutations(1..Len(hits))}

SearchCandidatesByKeywords(keywords, limit, offset) ==
    /\ \E r \in searchCandidatesByKeywords(keywords, limit, offset) :
          calls' = <<[op |-> "searchCandidatesByKeywords", keywords |-> keywords,
                      limit |-> limit, offset |-> offset, rows |-> candidates,
                      queries |-> r.queries,
                      result |-> [candidates |-> r.candidates, total |-> r.total]]>>
    /\ UNCHANGED <<candidates, jobs, jobApplications, nextId, pc, loc, ops,
                   assignLog, lastUpdate, lastRun, pollVars, excVars>>

(***************************************************************************)
(* extractDataFromText(text) and POST /api/extract-cv-data.  Of the fields *)
(* the function fills, the three telephone fields are modelled; no other   *)
(* field is read when they are computed.                                   *)
(***************************************************************************)
DigitChars == {"0", "1", "2", "3", "4", "5", "6", "7", "8", "9"}

\* [-\s]
SepChars == {"-", " ", "LF"}

\* The length of the match of  heads [-\s]? \d{7}  at position i, 0 for none;
\* heads is the sequence of character classes the number starts with.
MatchLenAt(s, i, heads) ==
    LET h == Len(heads)
        headOk == i + h - 1 <= Len(s) /\ \A k \in 1..h : s[i + k - 1] \in heads[k]
        digitsAt(j) == j + 6 <= Len(s) /\ \A k \in 0..6 : s[j + k] \in DigitChars
    IN  IF ~headOk THEN 0
        ELSE IF i + h <= Len(s) /\ s[i + h] \in SepChars /\ digitsAt(i + h + 1) THEN h + 8
        ELSE IF digitsAt(i + h) THEN h + 7
        ELSE 0

\* String.match with a /g pattern: the matches from left to right.
RECURSIVE MatchAll(_, _, _)
MatchAll(s, i, heads) ==
    IF i > Len(s) THEN <<>>
    ELSE IF MatchLenAt(s, i, heads) > 0
    THEN <<SubSeq(s, i, i + MatchLenAt(s, i, heads) - 1)>>
            \o MatchAll(s, i + MatchLenAt(s, i, heads), heads)
    ELSE MatchAll(s, i + 1, heads)

\* /(05\d{1}[-\s]?\d{7}|05\d{8})/g, /(0[3489][-\s]?\d{7})/g, /(0[2-9][-\s]?\d{7})/g
mobilePattern == <<{"0"}, {"5"}, DigitChars>>
phonePattern == <<{"0"}, {"3", "4", "8", "9"}>>
phonePattern2 == <<{"0"}, DigitChars \ {"0", "1"}>>

EmptyData == [mobile |-> <<>>, phone |-> <<>>, phone2 |-> <<>>]

extractDataFromText(text) ==
    LET upperThird == SubSeq(text, 1, (Len(text) * 3) \div 10)
        mobileMatch == MatchAll(upperThird, 1, mobilePattern)
        phoneMatch == MatchAll(upperThird, 1, phonePattern)
        phoneMatches == MatchAll(upperThird, 1, phonePattern2)
        phone == IF phoneMatch # <<>> THEN RemoveAll(phoneMatch[1], SepChars) ELSE <<>>
    IN  [mobile |-> IF mobileMatch # <<>> THEN RemoveAll(mobileMatch[1], SepChars) ELSE <<>>,
         phone |-> phone,
         phone2 |-> IF Len(phoneMatches) > 1 /\ phoneMatches[2] # phone
                    THEN RemoveAll(phoneMatches[2], SepChars) ELSE <<>>]

\* allowedTypes of the upload filter.
MimePdf == "application/pdf"
MimeDoc == "application/msword"
MimeDocx == "application/vnd.openxmlformats-officedocument.wordprocessingml.document"
MimePlain == "text/plain"
AllowedTypes == {MimePdf, MimeDoc, MimeDocx, MimePlain}

HebrewChars == {"alef"}

\* The lines of the strings output the route keeps for a PDF, joined by ' '.
KeptLine(line) ==
    \/ (Len(Trim(line)) > 2 /\ \E i \in 1..Len(line) : line[i] \in HebrewChars)
    \/ \E i \in 1..Len(line) : line[i] = "@"
    \/ \E i \in 1..(Len(line) - 2) :
          line[i] = "0" /\ line[i + 1] = "5" /\ line[i + 2] \in DigitChars

\* mammoth.extractRawText on the uploaded bytes: throws unless they are a DOCX.
MammothText(file) ==
    IF Len(file.bytes) >= 2 /\ SubSeq(file.bytes, 1, 2) = <<"P", "K">> THEN file.text ELSE <<>>

\* fileText, and whether the route has answered already (a PDF with less
\* than ten characters of text).
RouteFileText(file, mimetype, tools) ==
    IF mimetype = MimePdf
    THEN IF tools.strings = "ok"
         THEN LET kept == JoinSpace(SelectSeq(
                              WordsBy(Utf8Decode(StringsOutput(file.bytes)), {"LF"}),
                              KeptLine))
              IN  [text |-> kept, answered |-> Len(kept) < 10]
         ELSE [text |-> <<>>, answered |-> FALSE]
    ELSE IF mimetype \in {MimeDoc, MimeDocx}
    THEN [text |-> MammothText(file), answered |-> FALSE]
    ELSE [text |-> Utf8Decode(file.bytes), answered |-> FALSE]

PostExtractCvData(file, mimetype, tools) ==
    /\ LET fileText == RouteFileText(file, mimetype, tools)
       IN  calls' = <<[op |-> "POST /api/extract-cv-data", bytes |-> <<file.bytes>>,
                       mimetype |-> mimetype, tools |-> tools,
                       result |-> fileText.text,
                       response |-> IF fileText.answered \/ Trim(fileText.text) = <<>>
                                    THEN EmptyData
                                    ELSE extractDataFromText(fileText.text)]>>
    /\ UNCHANGED <<candidates, jobs, jobApplications, nextId, pc, loc, ops,
                   assignLog, lastUpdate, lastRun, pollVars, excVars>>

(***************************************************************************)
(* The poller: startEmailMonitoring, checkIncomingEmails and               *)
(* checkCpanelEmails.  A cycle connects, opens the INBOX, searches ALL and *)
(* fetches every message found; each fetched body goes to a handler, which *)
(* runs on its own from then on.  setInterval does not wait for a cycle to *)
(* end before it starts the next one.                                      *)
(***************************************************************************)
CycleIds == 1..Len(cycles)

\* Mail arriving in the INBOX.
Deliver(m) ==
    /\ Len(inbox) < MaxInbox
    /\ inbox' = Append(inbox, [msg |-> m, flags |-> {}])
    /\ UNCHANGED <<candidates, jobs, jobApplications, nextId, pc, loc, ops,
                   assignLog, lastUpdate, lastRun, cycles, queue, handled, caught, calls>>

\* The poller is alive as long as no exception has left checkIncomingEmails.
PollerAlive == \A c \in CycleIds : cycles[c].state # "threw"

\* The first check and every tick of the interval: checkIncomingEmails ->
\* checkCpanelEmails -> imap.connect().
Tick ==
    /\ Len(cycles) < MaxCycles
    /\ PollerAlive
    /\ cycles' = Append(cycles, [state |-> "connecting", connects |-> 1,
                                 results |-> <<>>, fetched |-> 0])
    /\ UNCHANGED <<candidates, jobs, jobApplications, nextId, pc, loc, ops,
                   assignLog, lastUpdate, lastRun, inbox, queue, handled, caught, calls>>

\* imap 'ready'.
Ready(c) ==
    /\ cycles[c].state = "connecting"
    /\ cycles' = [cycles EXCEPT ![c].state = "opening"]
    /\ UNCHANGED <<candidates, jobs, jobApplications, nextId, pc, loc, ops,
                   assignLog, lastUpdate, lastRun, inbox, queue, handled, caught, calls>>

\* imap.openBox('INBOX', false) succeeds.
BoxOpened(c) ==
    /\ cycles[c].state = "opening"
    /\ cycles' = [cycles EXCEPT ![c].state = "searching"]
    /\ UNCHANGED <<candidates, jobs, jobApplications, nextId, pc, loc, ops,
                   assignLog, lastUpdate, lastRun, inbox, queue, handled, caught, calls>>

\* imap.search(['ALL']): every message of the box, read or not.
SearchUnseen(box) ==
    SelectSeq([i \in 1..Len(box) |-> i], LAMBDA i : "Seen" \notin box[i].flags)

SearchAll(box) == [i \in 1..Len(box) |-> i]

\* The search succeeds; with no message found the cycle resolves at once.
SearchDone(c) ==
    /\ cycles[c].state = "searching"
    /\ cycles' = [cycles EXCEPT ![c].results = SearchAll(inbox),
                                ![c].state = IF Len(SearchAll(inbox)) = 0
                                             THEN "resolved" ELSE "fetching"]
    /\ UNCHANGED <<candidates, jobs, jobApplications, nextId, pc, loc, ops,
                   assignLog, lastUpdate, lastRun, inbox, queue, handled, caught, calls>>

\* imap.fetch(results, { bodies: '', markSeen: true }): the flags of a message
\* whose body has been fetched.
FetchedFlagsPeek(flags) == flags

FetchedFlags(flags) == flags \union {"Seen"}

\* One message of the fetch: its body is streamed, the server marks it, and the
\* stream's 'end' starts the handler (which first awaits simpleParser).
FetchMessage(c) ==
    /\ cycles[c].state = "fetching"
    /\ cycles[c].fetched < Len(cycles[c].results)
    /\ LET i == cycles[c].results[cycles[c].fetched + 1]
       IN  /\ inbox' = [inbox EXCEPT ![i].flags = FetchedFlags(@)]
           /\ queue' = Append(queue, [origin |-> <<c, i>>, msg |-> inbox[i].msg])
    /\ cycles' = [cycles EXCEPT ![c].fetched = @ + 1]
    /\ UNCHANGED <<candidates, jobs, jobApplications, nextId, pc, loc, ops,
                   assignLog, lastUpdate, lastRun, handled, caught, calls>>

\* fetch 'end': imap.end() and resolve(), without waiting for the handlers.
FetchEnd(c) ==
    /\ cycles[c].state = "fetching"
    /\ cycles[c].fetched = Len(cycles[c].results)
    /\ cycles' = [cycles EXCEPT ![c].state = "resolved"]
    /\ UNCHANGED <<candidates, jobs, jobApplications, nextId, pc, loc, ops,
                   assignLog, lastUpdate, lastRun, inbox, queue, handled, caught, calls>>

\* reject(err) reaches the catch of checkIncomingEmails, which logs it.
RejectedEscapes(cycle) == [cycle EXCEPT !.state = "threw"]

Rejected(cycle) == [cycle EXCEPT !.state = "failed"]

\* imap 'error', or the error of openBox, search or fetch: reject(err).
TransportError(c) ==
    /\ cycles[c].state \in {"connecting", "opening", "searching", "fetching"}
    /\ cycles' = [cycles EXCEPT ![c] = Rejected(cycles[c])]
    /\ UNCHANGED <<candidates, jobs, jobApplications, nextId, pc, loc, ops,
                   assignLog, lastUpdate, lastRun, inbox, queue, handled, caught, calls>>

\* The handler of the oldest fetched body resumes: simpleParser succeeds and
\* the message is classified, parsed and handed to createCandidateFromEmail.
HandleMessage(p) ==
    /\ queue # <<>>
    /\ ops < MaxOps
    /\ ops' = ops + 1
    /\ queue' = Tail(queue)
    /\ handled' = Append(handled, Head(queue).origin)
    /\ StartRun(p, Head(queue).msg, Head(queue).origin)
    /\ UNCHANGED <<inbox, cycles, caught, calls>>

\* simpleParser throws: the handler's catch logs the error.
HandleParseError ==
    /\ queue # <<>>
    /\ ops < MaxOps
    /\ ops' = ops + 1
    /\ queue' = Tail(queue)
    /\ handled' = Append(handled, Head(queue).origin)
    /\ caught' = Append(caught, [origin |-> Head(queue).origin, handled |-> Len(handled),
                                 stage |-> "parse"])
    /\ UNCHANGED <<candidates, jobs, jobApplications, nextId, pc, loc,
                   assignLog, lastUpdate, lastRun, inbox, cycles, calls>>

(***************************************************************************)
(* Specifications.  Spec: runs and calls interleave at every await.        *)
(* SpecSeq: one call at a time, no deletions.  SpecSeqDel: one call at a   *)
(* time, with deletions.                                                   *)
(***************************************************************************)
Step(p) ==
    \/ ReadMaxNumber(p)
    \/ InsertCandidate(p)
    \/ LookupCandidate(p)
    \/ UpdateCandidate(p)
    \/ LookupJob(p)
    \/ CheckDuplicate(p)
    \/ InsertApplication(p)

Next ==
    \/ \E p \in Procs, profile \in ManualProfiles : PostCandidate(p, profile)
    \/ \E p \in Procs, m \in Messages : ReceiveMessage(p, m)
    \/ \E id \in 1..nextId : DeleteCandidate(id)
    \/ \E p \in Procs : Step(p)

NextSeq ==
    \/ \E profile \in ManualProfiles : AllIdle /\ PostCandidate(1, profile)
    \/ \E m \in SeqMessages : AllIdle /\ ReceiveMessage(1, m)
    \/ Step(1)

NextSeqDel ==
    \/ NextSeq
    \/ \E id \in 1..nextId : AllIdle /\ DeleteCandidate(id)

Spec == Init /\ [][Next]_vars
SpecSeq == Init /\ [][NextSeq]_vars
SpecSeqDel == Init /\ [][NextSeqDel]_vars
SpecManyJobs == InitManyJobs /\ [][NextSeq]_vars

\* Manual creations and updates, one at a time, and identity look-ups.
TempEmail == <<"t", "@", "temp.local">>

ContactProfiles ==
    { [email |-> EmailA, firstName |-> <<"D">>, lastName |-> <<"L">>,
       mobile |-> <<>>, profession |-> <<>>, notes |-> <<>>, nationalId |-> <<"1">>],
      [email |-> EmailBA, firstName |-> <<"E">>, lastName |-> <<"M">>,
       mobile |-> <<"(", "0", "5", ")", "1">>, profession |-> <<>>, notes |-> <<>>],
      [email |-> TempEmail, firstName |-> <<"F">>, lastName |-> <<"N">>,
       mobile |-> <<"0", "5", "-", "1">>, profession |-> <<>>, notes |-> <<>>,
       nationalId |-> <<"2">>] }

PutMobiles == {<<"0", "5", "1">>, <<"9", "7", "2", "5", "1">>}

QueryMobiles == {<<>>, <<"0", "5", "1">>, <<"+", "9", "7", "2", "5", "1">>, <<"0", "5", "3">>}
QueryEmails == {<<>>, EmailUpperA, TempEmail}
QueryNationalIds == {<<>>, <<"2">>}

NextFind ==
    \/ \E profile \in ContactProfiles : AllIdle /\ PostCandidate(1, profile)
    \/ ReadMaxNumber(1)
    \/ InsertCandidate(1)
    \/ \E id \in 1..nextId, mobile \in PutMobiles : AllIdle /\ PutCandidate(id, mobile)
    \/ \E mobile \in QueryMobiles, email \in QueryEmails, nationalId \in QueryNationalIds :
          AllIdle /\ FindCandidate(mobile, email, nationalId)

SpecFind == Init /\ [][NextFind]_vars

\* Manual creations, one at a time, and CV searches.
KwJava == <<"J", "a", "v", "a">>
KwJunior == <<"J", "u", "n">>

SearchProfiles ==
    { [email |-> EmailA, firstName |-> <<"D">>, lastName |-> <<"L">>, mobile |-> <<>>,
       profession |-> <<"j", "a", "v", "a">>, notes |-> <<"j", "u", "n">>],
      [email |-> EmailBA, firstName |-> <<"E">>, lastName |-> <<"M">>, mobile |-> <<>>,
       profession |-> <<>>, notes |-> <<>>,
       cvContent |-> <<"J", "A", "V", "A", " ", "j", "u", "n">>, cvPath |-> <<"f", "1">>],
      [email |-> EmailUpperA, firstName |-> <<"F">>, lastName |-> <<"N">>, mobile |-> <<>>,
       profession |-> <<>>, notes |-> <<>>, cvPath |-> <<"f", "1">>],
      [email |-> TempEmail, firstName |-> <<"G">>, lastName |-> <<"O">>, mobile |-> <<>>,
       profession |-> <<>>, notes |-> <<>>, cvPath |-> <<"f", "2">>] }

PositiveKeywordLists == {<<>>, <<KwJava>>, <<<<>>>>, <<KwJunior, KwJava>>}
NegativeKeywordLists == {<<>>, <<KwJunior>>, <<<<>>>>}

NextSearch ==
    \/ \E profile \in SearchProfiles : AllIdle /\ PostCandidate(1, profile)
    \/ ReadMaxNumber(1)
    \/ InsertCandidate(1)
    \/ \E positiveKeywords \in PositiveKeywordLists,
          negativeKeywords \in NegativeKeywordLists, includeNotes \in BOOLEAN :
          AllIdle /\ SearchCVs(positiveKeywords, negativeKeywords, includeNotes)

SpecSearch == Init /\ [][NextSearch]_vars

\* Manual creations, one at a time, and indexed searches.
KeywordQueries ==
    { <<>>, <<" ">>, <<" ", " ">>, <<"j", "a", "v", "a">>, <<" ", "J", "u", "n", " ">>,
      <<"j", "a", "v", "a", " ", " ", "j", "u", "n">>, <<"LF">>, <<"x">> }
PageLimits == {1, 50}
PageOffsets == {0, 1}

NextKeywords ==
    \/ \E profile \in SearchProfiles : AllIdle /\ PostCandidate(1, profile)
    \/ ReadMaxNumber(1)
    \/ InsertCandidate(1)
    \/ \E keywords \in KeywordQueries, limit \in PageLimits, offset \in PageOffsets :
          AllIdle /\ SearchCandidatesByKeywords(keywords, limit, offset)

SpecKeywords == Init /\ [][NextKeywords]_vars

\* Manual creations and calls of createJobApplication, directly and through
\* the route: for a stored or a missing candidate, for a stored or a missing
\* job, with a status of the enum or with 'interview_scheduled'.
ApplicationRequests ==
    [candidateId : {1, 2}, jobId : {<<"7">>, <<"z">>},
     status : {"submitted", "interview", InterviewScheduled}]

ApplicationStep(p) ==
    \/ ReadMaxNumber(p)
    \/ InsertCandidate(p)
    \/ CheckDuplicate(p)
    \/ UpdateApplication(p)
    \/ InsertApplication(p)

NextApplySeq ==
    \/ \E profile \in ManualProfiles : AllIdle /\ PostCandidate(1, profile)
    \/ \E application \in ApplicationRequests : AllIdle /\ CreateJobApplication(1, application)
    \/ \E body \in ApplicationRequests : AllIdle /\ PostJobApplication(1, body)
    \/ ApplicationStep(1)

NextApply ==
    \/ \E profile \in ManualProfiles : AllIdle /\ PostCandidate(1, profile)
    \/ \E p \in Procs, application \in ApplicationRequests : CreateJobApplication(p, application)
    \/ \E p \in Procs, body \in ApplicationRequests : PostJobApplication(p, body)
    \/ \E p \in Procs : ApplicationStep(p)

SpecApplySeq == Init /\ [][NextApplySeq]_vars
SpecApply == Init /\ [][NextApply]_vars

\* Calls of extractTextFromCVFile and uploads to POST /api/extract-cv-data.
CvPaths ==
    {f.path : f \in UploadedFiles} \union {Tail(f.path) : f \in UploadedFiles}
        \union {<<"f", "9">>}

NextExtract ==
    \/ \E cvPath \in CvPaths, tools \in ToolOutcomes : ExtractTextFromCVFile(cvPath, tools)
    \/ \E file \in UploadedFiles, mimetype \in AllowedTypes, tools \in ToolOutcomes :
          PostExtractCvData(file, mimetype, tools)

SpecExtract == Init /\ [][NextExtract]_vars

\* extractDataFromText on texts whose head holds one or two telephone
\* numbers, written plain or with a separator, the second one next to the
\* first or further down.
WrittenNumbers ==
    LET numbers == { <<"0", "3", "1", "2", "3", "4", "5", "6", "7">>,
                     <<"0", "4", "1", "2", "3", "4", "5", "6", "7">>,
                     <<"0", "5", "0", "1", "2", "3", "4", "5", "6", "7">> }
    IN  UNION { {n, SubSeq(n, 1, Len(n) - 7) \o <<"-">> \o SubSeq(n, Len(n) - 6, Len(n)),
                 SubSeq(n, 1, Len(n) - 7) \o <<" ">> \o SubSeq(n, Len(n) - 6, Len(n))}
                : n \in numbers }

Filler(n) == [i \in 1..n |-> "x"]

PhoneTexts ==
    {w \o Filler(3 * Len(w)) : w \in WrittenNumbers}
      \union {w1 \o <<" ">> \o w2 \o Filler(70) : w1 \in WrittenNumbers, w2 \in WrittenNumbers}
      \union {w1 \o Filler(30) \o w2 : w1 \in WrittenNumbers, w2 \in WrittenNumbers}

InitPhones ==
    /\ InitStore(JobTable)
    /\ \E text \in PhoneTexts : calls = <<[op |-> "input", text |-> text]>>

ExtractData ==
    /\ calls[1].op = "input"
    /\ calls' = <<[op |-> "extractDataFromText", text |-> calls[1].text,
                   result |-> extractDataFromText(calls[1].text)]>>
    /\ UNCHANGED <<candidates, jobs, jobApplications, nextId, pc, loc, ops,
                   assignLog, lastUpdate, lastRun, pollVars, excVars>>

NextPhones == ExtractData

SpecPhones == InitPhones /\ [][NextPhones]_vars

\* Runs one at a time on a store whose manual profiles may have empty names
\* (the insert schema asks for strings, of any length).
NamelessProfile ==
    [email |-> EmailBA, firstName |-> <<>>, lastName |-> <<>>,
     mobile |-> <<>>, profession |-> <<>>, notes |-> <<>>]

NextNames ==
    \/ \E profile \in ManualProfiles \union {NamelessProfile} :
          AllIdle /\ PostCandidate(1, profile)
    \/ \E m \in SeqMessages : AllIdle /\ ReceiveMessage(1, m)
    \/ Step(1)

SpecNames == Init /\ [][NextNames]_vars

\* Written forms of Israeli numbers: the national number behind 0, behind
\* nothing, behind +972 and behind 972, plain or with separators.
NationalNumbers ==
    { <<"5", "0", "1", "2", "3", "4", "5", "6", "7">>,
      <<"5", "9", "7", "2", "1", "2", "3", "4", "5">> }

CountryPrefixes == {<<"0">>, <<>>, <<"+", "9", "7", "2">>, <<"9", "7", "2">>}

SeparatorStyles == {"plain", "dashes", "spaces", "parentheses"}

InsertAt(s, k, sep) == SubSeq(s, 1, k) \o sep \o SubSeq(s, k + 1, Len(s))

Written(n, prefix, style) ==
    LET digits == prefix \o n
        k == Len(prefix) + 2
    IN  CASE style = "plain" -> digits
          [] style = "dashes" -> InsertAt(InsertAt(digits, Len(digits) - 4, <<"-">>), k, <<"-">>)
          [] style = "spaces" -> InsertAt(InsertAt(digits, Len(digits) - 4, <<" ">>), k, <<" ">>)
          [] style = "parentheses" ->
                <<"(">> \o SubSeq(digits, 1, k) \o <<")", " ">>
                    \o SubSeq(digits, k + 1, Len(digits))

WrittenForms(n) == {Written(n, prefix, style) : prefix \in CountryPrefixes,
                                                 style \in SeparatorStyles}

AllWrittenForms == UNION {WrittenForms(n) : n \in NationalNumbers}

\* Every string of up to MaxPhoneLen characters of a phone number.
PhoneChars == {"+", "9", "7", "2", "0", "-"}

PhoneStrings == UNION {[1..n -> PhoneChars] : n \in 0..MaxPhoneLen}

\* normalizePhone applied to an input, and applied again to what it returned.
InitNormalize ==
    /\ InitStore(JobTable)
    /\ \E x \in PhoneStrings \union AllWrittenForms : calls = <<[op |-> "input", x |-> x]>>

Normalize ==
    /\ calls[1].op = "input"
    /\ calls' = <<[op |-> "normalizePhone", x |-> calls[1].x,
                   result |-> normalizePhone(calls[1].x), depth |-> 1]>>
    /\ UNCHANGED <<candidates, jobs, jobApplications, nextId, pc, loc, ops,
                   assignLog, lastUpdate, lastRun, pollVars, excVars>>

NormalizeAgain ==
    /\ calls[1].op = "normalizePhone"
    /\ calls[1].depth = 1
    /\ calls' = <<[op |-> "normalizePhone", x |-> calls[1].result,
                   result |-> normalizePhone(calls[1].result), depth |-> 2]>>
    /\ UNCHANGED <<candidates, jobs, jobApplications, nextId, pc, loc, ops,
                   assignLog, lastUpdate, lastRun, pollVars, excVars>>

NextNormalize == Normalize \/ NormalizeAgain

SpecNormalize == InitNormalize /\ [][NextNormalize]_vars

\* The mobile condition of findCandidateByContactInfo on one stored value and
\* one query value.
InitMobileKey ==
    /\ InitStore(JobTable)
    /\ \E stored \in AllWrittenForms, mobile \in AllWrittenForms :
          calls = <<[op |-> "input", stored |-> stored, mobile |-> mobile]>>

CompareMobile ==
    /\ calls[1].op = "input"
    /\ calls' = <<[op |-> "mobileCondition", stored |-> calls[1].stored,
                   mobile |-> calls[1].mobile,
                   result |-> MobileMatches(calls[1].stored, calls[1].mobile)]>>
    /\ UNCHANGED <<candidates, jobs, jobApplications, nextId, pc, loc, ops,
                   assignLog, lastUpdate, lastRun, pollVars, excVars>>

NextMobileKey == CompareMobile

SpecMobileKey == InitMobileKey /\ [][NextMobileKey]_vars

\* The poller with the handlers it starts.  The mail is in the box when the
\* poller starts, and a tick finds the cycle before it settled and its
\* handlers done.
PollMessages == {MsgFull, MsgOther}

CyclesSettled == \A c \in CycleIds : cycles[c].state \in {"resolved", "failed"}

PollerQuiet == CyclesSettled /\ AllIdle /\ queue = <<>>

NextPoll ==
    \/ PollerQuiet /\ Tick
    \/ \E m \in PollMessages : cycles = <<>> /\ Deliver(m)
    \/ \E c \in CycleIds : Ready(c)
    \/ \E c \in CycleIds : BoxOpened(c)
    \/ \E c \in CycleIds : SearchDone(c)
    \/ \E c \in CycleIds : FetchMessage(c)
    \/ \E c \in CycleIds : FetchEnd(c)
    \/ \E c \in CycleIds : TransportError(c)
    \/ \E p \in Procs : HandleMessage(p)
    \/ HandleParseError
    \/ \E p \in Procs : Step(p)

SpecPoll == Init /\ [][NextPoll]_vars

\* The poller as setInterval drives it: a tick comes whether or not the
\* cycle before it and its handlers are done.
NextOverlap ==
    \/ Tick
    \/ \E m \in PollMessages : cycles = <<>> /\ Deliver(m)
    \/ \E c \in CycleIds : Ready(c)
    \/ \E c \in CycleIds : BoxOpened(c)
    \/ \E c \in CycleIds : SearchDone(c)
    \/ \E c \in CycleIds : FetchMessage(c)
    \/ \E c \in CycleIds : FetchEnd(c)
    \/ \E c \in CycleIds : TransportError(c)
    \/ \E p \in Procs : HandleMessage(p)
    \/ HandleParseError
    \/ \E p \in Procs : Step(p)

SpecOverlap == Init /\ [][NextOverlap]_vars

(***************************************************************************)
(* Properties.                                                             *)
(***************************************************************************)
IsPrefix(s, t) == Len(s) <= Len(t) /\ SubSeq(t, 1, Len(s)) = s

WithEmail(rows, email) == SelectSeq(rows, LAMBDA c : c.email = email)

ApplicationsOf(apps, candidateId, jobId) ==
    SelectSeq(apps, LAMBDA a : a.candidateId = candidateId /\ a.jobId = jobId)

\* The last run was of a message classified as an application whose email resolved.
RunProcessed(r) ==
    /\ isJobApplicationEmail(r.msg.subject, r.msg.body, r.msg.from)
    /\ r.data.email # <<>>

\* The first job, in the store's listing order (newest first), matching the code.
FirstMatchingJob(code) == FindJob(Reverse(jobs), code)

\* C1: with calls one at a time and no deletion, starting from the empty store,
\* the candidates are numbered 100, 101, 102, ... in creation order.
CandidateNumbersGapless ==
    /\ assignLog = [i \in 1..Len(assignLog) |-> 99 + i]
    /\ Len(candidates) = Len(assignLog)
    /\ \A i \in 1..Len(candidates) : candidates[i].candidateNumber = 99 + i

ThreeSequentialCreations ==
    /\ Len(candidates) = 3
    /\ assignLog = <<100, 101, 102>>

\* C2: no two stored candidates share a candidate number, also when
\* createCandidate calls interleave.
CandidateNumbersUnique ==
    \A i, j \in 1..Len(candidates) :
        i # j => candidates[i].candidateNumber # candidates[j].candidateNumber

\* C3: every candidate number assigned is greater than every number assigned
\* before it, also after deletions.
CandidateNumbersNeverReused ==
    \A i, j \in 1..Len(assignLog) : i < j => assignLog[i] < assignLog[j]

\* C4: however dedup-then-create sequences for one email interleave, at most
\* one candidate with that email exists.
AtMostOneProfilePerEmail ==
    \A i, j \in 1..Len(candidates) :
        i # j => candidates[i].email # candidates[j].email

\* A pipeline run found no candidate for its email and is about to insert one,
\* and a candidate with that email has been stored in between.
ConcurrentCreateSameEmail ==
    \E p \in Procs :
        /\ pc[p] = "insert"
        /\ loc[p].kind = "mail"
        /\ EmailTaken(loc[p].candidate.email)

\* C5: a message with an email not in the store and a job code matching some
\* job creates exactly one candidate and exactly one application, of that
\* candidate for the first matching job, with status submitted.
MessageCreatesCandidateAndApplication ==
    lastRun # <<>> =>
        LET r == lastRun[1]
            d == r.data
            job == FirstMatchingJob(d.jobCode)
            n == Len(r.before.candidates)
            k == Len(r.before.jobApplications)
        IN  (/\ RunProcessed(r)
             /\ WithEmail(r.before.candidates, d.email) = <<>>
             /\ d.jobCode # <<>>
             /\ job # <<>>)
            => /\ Len(r.after.candidates) = n + 1
               /\ SubSeq(r.after.candidates, 1, n) = r.before.candidates
               /\ r.after.candidates[n + 1].email = d.email
               /\ Len(r.after.jobApplications) = k + 1
               /\ SubSeq(r.after.jobApplications, 1, k) = r.before.jobApplications
               /\ r.after.jobApplications[k + 1].candidateId = r.after.candidates[n + 1].id
               /\ r.after.jobApplications[k + 1].jobId = job[1].id
               /\ r.after.jobApplications[k + 1].status = "submitted"

\* C6: a message for an email and a job code whose candidate and application
\* are already stored leaves one candidate with that email, the stored one,
\* updated, and one application of it for that job.
RepeatedMessage(r) ==
    LET d == r.data
        prior == WithEmail(r.before.candidates, d.email)
        job == FirstMatchingJob(d.jobCode)
    IN  /\ RunProcessed(r)
        /\ prior # <<>>
        /\ d.jobCode # <<>>
        /\ job # <<>>
        /\ ApplicationsOf(r.before.jobApplications, prior[1].id, job[1].id) # <<>>

RepeatedMessageNoDuplicate ==
    lastRun # <<>> =>
        LET r == lastRun[1]
            d == r.data
            prior == WithEmail(r.before.candidates, d.email)
            now == WithEmail(r.after.candidates, d.email)
            job == FirstMatchingJob(d.jobCode)
        IN  RepeatedMessage(r)
            => /\ Len(now) = 1
               /\ now[1].id = prior[1].id
               /\ now[1].notes = Trim(prior[1].notes \o NewMailBlock(d))
               /\ Len(r.after.candidates) = Len(r.before.candidates)
               /\ Len(ApplicationsOf(r.after.jobApplications, prior[1].id, job[1].id)) = 1
               /\ r.after.jobApplications = r.before.jobApplications

RepeatedMessageProcessed == lastRun # <<>> /\ RepeatedMessage(lastRun[1])

\* C7: a message whose phone equals, normalized, the mobile of a stored
\* candidate, or whose email equals a stored email ignoring case, updates that
\* candidate and creates no profile.
SamePerson(c, d) ==
    \/ (d.phone # <<>> /\ c.mobile # <<>>
          /\ normalizePhone(c.mobile) = normalizePhone(d.phone))
    \/ ToLower(c.email) = ToLower(d.email)

InboundResolvesByPhoneOrEmail ==
    lastRun # <<>> =>
        LET r == lastRun[1]
            known == SelectSeq(r.before.candidates, LAMBDA c : SamePerson(c, r.data))
        IN  (RunProcessed(r) /\ known # <<>>)
            => /\ Len(r.after.candidates) = Len(r.before.candidates)
               /\ \E i \in 1..Len(known) :
                     RowById(r.after.candidates, known[i].id) # known[i]

NotesOnlyAppended ==
    lastUpdate # <<>> =>
        LET u == lastUpdate[1]
            rest == SubSeq(u.after.notes, Len(u.stored.notes) + 1, Len(u.after.notes))
        IN  /\ IsPrefix(u.stored.notes, u.after.notes)
            /\ Trim(rest) = Trim(NewMailBlock(u.data))

\* C10: a message classified as an application with no address in its text
\* and an empty From header changes nothing in the store.
UnresolvedEmailSkipped ==
    lastRun # <<>> =>
        LET r == lastRun[1]
        IN  (/\ isJobApplicationEmail(r.msg.subject, r.msg.body, r.msg.from)
             /\ FirstMatch(r.msg.subject \o r.msg.body, "email") = <<>>
             /\ r.msg.from = <<>>)
            => r.after = r.before

UnresolvedEmailMessageSeen ==
    /\ lastRun # <<>>
    /\ lastRun[1].msg = MsgNoEmail
    /\ Len(candidates) > 0

Range(seq) == {seq[i] : i \in 1..Len(seq)}

\* <<cycle, message>> for every message body a cycle has fetched so far.
FetchedOrigins ==
    UNION {{<<c, cycles[c].results[k]>> : k \in 1..cycles[c].fetched} : c \in CycleIds}

\* C11: an exception raised while one fetched message is processed is caught,
\* and every other message fetched in the cycle is still handed to the
\* pipeline: each fetched message is waiting for its handler or has been
\* through it, whatever the other runs threw.
ExceptionsDoNotStopOtherMessages ==
    \A o \in FetchedOrigins :
        o \in Range(handled) \union {queue[i].origin : i \in 1..Len(queue)}

\* A run threw, and a different message of the same cycle went through the
\* handler after that.
MessageHandledAfterException ==
    \E i \in 1..Len(caught) :
        /\ caught[i].origin # <<>>
        /\ \E k \in (caught[i].handled + 1)..Len(handled) :
              /\ handled[k][1] = caught[i].origin[1]
              /\ handled[k] # caught[i].origin

\* C12: a transport failure ends its cycle as a failure, with the one connect
\* the cycle made; no exception leaves checkIncomingEmails, and the next tick
\* can start a new cycle.
TransportFailureEndsCycleOnly ==
    /\ PollerAlive
    /\ \A c \in CycleIds : cycles[c].connects = 1
    /\ (Len(cycles) < MaxCycles /\ CyclesSettled) => ENABLED Tick

\* A cycle failed on the transport and a later cycle got connected.
CycleAfterFailedCycle ==
    \E c, d \in CycleIds :
        /\ c < d
        /\ cycles[c].state = "failed"
        /\ cycles[d].state \in {"opening", "searching", "fetching", "resolved"}

\* C13: every message whose body a cycle fetched is marked as read, whatever
\* its classification and the outcome of its run.
FetchedMessagesMarkedSeen ==
    \A o \in FetchedOrigins : "Seen" \in inbox[o[2]].flags

\* A message that is no application and a message whose run threw, both fetched.
SeenWithoutSuccess ==
    /\ \E k \in 1..Len(handled) :
          LET m == inbox[handled[k][2]].msg
          IN  ~isJobApplicationEmail(m.subject, m.body, m.from)
    /\ \E i \in 1..Len(caught) :
          caught[i].origin # <<>> /\ "Seen" \in inbox[caught[i].origin[2]].flags

\* The identity policy as stated: normalized mobiles equal, emails equal
\* ignoring case (an empty or placeholder email is no key), national IDs equal.
SameIdentity(c, mobile, email, nationalId) ==
    \/ (mobile # <<>> /\ c.mobile # <<>>
          /\ normalizePhone(c.mobile) = normalizePhone(mobile))
    \/ (UsableEmail(email) /\ ToLower(c.email) = ToLower(email))
    \/ (nationalId # <<>> /\ c.nationalId = nationalId)

LastFind == calls # <<>> /\ calls[1].op = "findCandidateByContactInfo"

\* C14: findCandidateByContactInfo returns a stored candidate that matches one
\* of the supplied keys whenever there is one, and none otherwise.
FindReturnsMatchingCandidate ==
    LastFind =>
        LET q == calls[1]
            known == {i \in 1..Len(q.rows) :
                         SameIdentity(q.rows[i], q.mobile, q.email, q.nationalId)}
        IN  IF known = {} THEN q.result = <<>>
            ELSE \E i \in known : q.result = <<q.rows[i]>>

\* C16: when several stored candidates match, findCandidateByContactInfo
\* returns the most recently created of them.
FindReturnsMostRecentMatch ==
    LastFind =>
        LET q == calls[1]
            hits == {i \in 1..Len(q.rows) :
                        ContactMatches(q.rows[i], q.mobile, q.email, q.nationalId)}
        IN  Cardinality(hits) > 1 => q.result = <<q.rows[MaxOf(hits)]>>

\* C15: the mobile condition holds exactly when the stored mobile and the
\* query normalize to the same string.
MobileConditionIsNormalizedEquality ==
    (calls # <<>> /\ calls[1].op = "mobileCondition") =>
        (calls[1].result <=>
            normalizePhone(calls[1].stored) = normalizePhone(calls[1].mobile))

\* C17: normalizePhone applied to its own result returns it unchanged.
NormalizePhoneIdempotent ==
    (calls # <<>> /\ calls[1].op = "normalizePhone" /\ calls[1].depth = 2) =>
        calls[1].result = calls[1].x

\* A second application to a result the first one had rewritten.
NormalizedTwice ==
    /\ calls # <<>>
    /\ calls[1].op = "normalizePhone"
    /\ calls[1].depth = 2
    /\ calls[1].x = <<"0", "5", "0", "1", "2", "3", "4", "5", "6", "7">>

\* C18: every written form of a number normalizes to its local form, 0 and
\* the national number.
WrittenFormsNormalizeToLocal ==
    (calls # <<>> /\ calls[1].op = "normalizePhone" /\ calls[1].depth = 1) =>
        \A n \in NationalNumbers :
            calls[1].x \in WrittenForms(n) => calls[1].result = <<"0">> \o n

\* '+972501234567' normalized to '0501234567'.
InternationalFormNormalized ==
    /\ calls # <<>>
    /\ calls[1].op = "normalizePhone"
    /\ calls[1].x = <<"+", "9", "7", "2", "5", "0", "1", "2", "3", "4", "5", "6", "7">>
    /\ calls[1].result = <<"0", "5", "0", "1", "2", "3", "4", "5", "6", "7">>

LastSearch == calls # <<>> /\ calls[1].op = "searchCVs"

InResult(call, c) == \E k \in 1..Len(call.result) : call.result[k].candidateId = c.id

IsSubstringIgnoringCase(keyword, text) == Includes(ToLower(text), ToLower(keyword))

\* C19 as stated: a candidate is returned iff there is no positive keyword or
\* one of them is a substring, ignoring case, of its searchable text, and no
\* negative keyword is.
SearchMatchesBySubstring ==
    LastSearch =>
        LET q == calls[1]
        IN  \A i \in 1..Len(q.rows) :
               LET text == CandidateText(q.rows[i], q.includeNotes)
               IN  InResult(q, q.rows[i]) <=>
                     /\ \/ q.positiveKeywords = <<>>
                        \/ \E k \in Range(q.positiveKeywords) : IsSubstringIgnoringCase(k, text)
                     /\ ~\E k \in Range(q.negativeKeywords) : IsSubstringIgnoringCase(k, text)

\* C19 amended: the same with the keywords that are not empty; an empty
\* keyword is found in no text.
SearchMatchesByNonEmptyKeyword ==
    LastSearch =>
        LET q == calls[1]
        IN  \A i \in 1..Len(q.rows) :
               LET text == CandidateText(q.rows[i], q.includeNotes)
               IN  InResult(q, q.rows[i]) <=>
                     /\ \/ q.positiveKeywords = <<>>
                        \/ \E k \in Range(q.positiveKeywords) :
                              k # <<>> /\ IsSubstringIgnoringCase(k, text)
                     /\ ~\E k \in Range(q.negativeKeywords) :
                              k # <<>> /\ IsSubstringIgnoringCase(k, text)

\* Java wanted, Junior not: a candidate with both is left out, one with Java
\* only is returned.
JavaWithoutJunior ==
    /\ LastSearch
    /\ calls[1].positiveKeywords = <<KwJava>>
    /\ calls[1].negativeKeywords = <<KwJunior>>
    /\ \E i, j \in 1..Len(calls[1].rows) :
          LET ti == CandidateText(calls[1].rows[i], calls[1].includeNotes)
              tj == CandidateText(calls[1].rows[j], calls[1].includeNotes)
          IN  /\ IsSubstringIgnoringCase(KwJava, ti) /\ IsSubstringIgnoringCase(KwJunior, ti)
              /\ ~InResult(calls[1], calls[1].rows[i])
              /\ IsSubstringIgnoringCase(KwJava, tj) /\ ~IsSubstringIgnoringCase(KwJunior, tj)
              /\ InResult(calls[1], calls[1].rows[j])

\* C20: searchCVs leaves every candidate record as it was, and a search right
\* after another extracts the same files again.
SearchLeavesStoreUnchanged ==
    LastSearch =>
        /\ calls[1].after = calls[1].rows
        /\ calls[1].previously # <<>> => calls[1].extracted = calls[1].previously[1]

\* Two searches in a row, each extracting the text of a file.
SearchedTwiceExtractedTwice ==
    /\ LastSearch
    /\ calls[1].previously # <<>>
    /\ calls[1].extracted # <<>>
    /\ calls[1].previously[1] = calls[1].extracted

\* C21: searchCandidatesByKeywords with a query that has no non-blank term
\* (the empty string or only spaces) returns candidates = [] and total = 0
\* and sends no statement to the store.
LastKeywordSearch ==
    IF calls # <<>> /\ calls[1].op = "searchCandidatesByKeywords" THEN calls ELSE <<>>

OnlySpaces(keywords) == \A i \in 1..Len(keywords) : keywords[i] = " "

BlankQueryReturnsEmptyWithoutQuery ==
    \A q \in Range(LastKeywordSearch) :
       OnlySpaces(q.keywords) =>
          /\ q.result = [candidates |-> <<>>, total |-> 0]
          /\ q.queries = 0

\* A query of two spaces on a store that holds CV text.
BlankQueryOnStoredText ==
    \E q \in Range(LastKeywordSearch) :
       /\ q.keywords = <<" ", " ">>
       /\ \E i \in 1..Len(q.rows) : q.rows[i].cvContent # <<>>
       /\ q.queries = 0

\* C22: createJobApplication for a (candidate, job) pair that already has an
\* application, called with a status other than 'interview_scheduled', fails
\* with an error that carries the existing application record, and inserts or
\* changes no job-application row.
LastApplicationCall ==
    IF calls # <<>> /\ calls[1].op = "createJobApplication" /\ calls[1].response # <<ValidationError>>
    THEN calls ELSE <<>>

PairApplications(rows, application) ==
    {rows[i] : i \in {j \in 1..Len(rows) :
                         /\ rows[j].candidateId = application.candidateId
                         /\ rows[j].jobId = application.jobId}}

DuplicateApplicationFails ==
    \A q \in Range(LastApplicationCall) :
       (/\ PairApplications(q.before, q.application) # {}
        /\ q.application.status # InterviewScheduled)
       => /\ q.returned = <<>>
          /\ q.thrown # <<>>
          /\ \E e \in Range(q.thrown[1].existingApplication) :
                e.row \in PairApplications(q.before, q.application)
          /\ q.after = q.before

\* A second 'submitted' call for a stored pair has thrown.
DuplicateApplicationThrown ==
    \E q \in Range(LastApplicationCall) :
       /\ PairApplications(q.before, q.application) # {}
       /\ q.application.status = "submitted"
       /\ q.thrown # <<>>

\* C23: the route that creates a job application reports a duplicate
\* (candidate, job) application as a conflict that differs from the answer to
\* an arbitrary server error and that includes the existing application.
LastRouteCall ==
    IF LastApplicationCall # <<>> /\ calls[1].response # <<>> THEN calls ELSE <<>>

DuplicateReportedAsConflict ==
    \A q \in Range(LastRouteCall) :
       (q.thrown # <<>> /\ q.thrown[1].existingApplication # <<>>)
       => /\ q.response[1] # RouteFailure(DatabaseError)
          /\ q.response[1].json.existingApplication = q.thrown[1].existingApplication

\* C24: every temporary file extractTextFromCVFile writes for a PDF has been
\* deleted when the function returns, whether pdftotext works, pdftotext
\* fails and strings works, or both fail.
LastExtraction ==
    IF calls # <<>> /\ calls[1].op = "extractTextFromCVFile" THEN calls ELSE <<>>

TemporaryFilesDeleted ==
    \A q \in Range(LastExtraction) : q.left = {}

\* C25: for a file whose bytes start with neither '%PDF' nor 'PK', the
\* document text extractor returns the bytes decoded as UTF-8, unchanged,
\* whatever MIME type was declared.
LastTextExtraction ==
    IF calls # <<>> /\ calls[1].op \in {"extractTextFromCVFile", "POST /api/extract-cv-data"}
    THEN calls ELSE <<>>

NoSignature(bytes) ==
    /\ ~(Len(bytes) >= 4 /\ SubSeq(bytes, 1, 4) = <<"%", "P", "D", "F">>)
    /\ ~(Len(bytes) >= 2 /\ SubSeq(bytes, 1, 2) = <<"P", "K">>)

UnrecognizedBytesDecodedVerbatim ==
    \A q \in Range(LastTextExtraction) :
       \A bytes \in Range(q.bytes) :
          NoSignature(bytes) => q.result = Utf8Decode(bytes)

\* C27: whenever extractDataFromText fills phone2, phone2 differs from the
\* extracted phone, also when the same number occurs twice in the head
\* window written with '-' or a space.
LastExtractedData ==
    IF calls # <<>> /\ calls[1].op = "extractDataFromText" THEN calls ELSE <<>>

SecondPhoneDiffers ==
    \A q \in Range(LastExtractedData) :
       q.result.phone2 # <<>> => q.result.phone2 # q.result.phone

\* C26: a candidate the inbound pipeline has created or updated has a
\* non-empty email, first name and last name afterwards, and an application
\* the pipeline has created is of that candidate and for a stored job.
PipelineKeepsRequiredFields ==
    \A r \in Range(lastRun) :
       RunProcessed(r) =>
          /\ \A c \in Range(r.after.candidates) :
                c.id = r.candidateId =>
                   c.email # <<>> /\ c.firstName # <<>> /\ c.lastName # <<>>
          /\ \A a \in Range(r.after.jobApplications) :
                a \notin Range(r.before.jobApplications) =>
                   /\ a.candidateId = r.candidateId
                   /\ \E c \in Range(r.after.candidates) : c.id = a.candidateId
                   /\ a.jobId \in JobIds

\* C28: a cycle resolves only after the pipeline run of every message it
\* fetched has finished, so when a tick starts the next cycle no message of
\* an earlier cycle that has ended is still waiting for its handler or being
\* processed.
InFlightOf(c) ==
    \/ \E i \in 1..Len(queue) : queue[i].origin[1] = c
    \/ \E p \in Procs : pc[p] # "idle" /\ loc[p].origin # <<>> /\ loc[p].origin[1] = c

CyclesWaitForTheirMessages ==
    \A c \in 1..Len(cycles) :
       /\ cycles[c].state = "resolved" => ~InFlightOf(c)
       /\ cycles[c].state = "connecting" =>
             \A b \in 1..(c - 1) :
                cycles[b].state \in {"resolved", "failed"} => ~InFlightOf(b)

\* C29: every cycle searches all messages of the INBOX, read or not, so an
\* application message that stays there goes through the pipeline in every
\* cycle: after k cycles, one after the other, there is one candidate for
\* its email, and the candidate's notes hold k message blocks.
MessageBlocks(notes) ==
    Cardinality({i \in 1..Len(notes) :
                    notes[i] \in {"--- original mail ---", "--- new mail ---"}})

ParsedEmail(m) == parseCandidate(m.subject, m.body, m.from).email

\* The only application message of its sender in the box, after cycles that
\* all resolved, with every handler done and no message lost to the parser.
StayedThroughCycles(i) ==
    /\ Len(cycles) >= 1
    /\ PollerQuiet
    /\ \A c \in CycleIds : cycles[c].state = "resolved"
    /\ \A e \in Range(caught) : e.stage # "parse"
    /\ isJobApplicationEmail(inbox[i].msg.subject, inbox[i].msg.body, inbox[i].msg.from)
    /\ ParsedEmail(inbox[i].msg) # <<>>
    /\ \A j \in 1..Len(inbox) :
          j # i => ParsedEmail(inbox[j].msg) # ParsedEmail(inbox[i].msg)

OneRowPerPair(rows) ==
    \A i, j \in 1..Len(rows) :
       (rows[i].candidateId = rows[j].candidateId /\ rows[i].jobId = rows[j].jobId) => i = j

AtMostOneApplicationPerPair ==
    /\ OneRowPerPair(jobApplications)
    /\ \A q \in Range(LastApplicationCall) :
          (/\ q.application.status = InterviewScheduled
           /\ PairApplications(q.before, q.application) # {})
          => /\ q.thrown = <<>>
             /\ \E a \in PairApplications(q.after, q.application) :
                   a.status = InterviewScheduled
             /\ Cardinality(PairApplications(q.after, q.application))
                   = Cardinality(PairApplications(q.before, q.application))

====
